---- MODULE Spec2Model ----
(***************************************************************************)
(* Beacon JSON-RPC dispatch layer (trin-beacon/src/jsonrpc.rs).            *)
(*                                                                         *)
(* The router task (BeaconRequestHandler::handle_client_queries) drains    *)
(* the intake queue and spawns one task per request; every task runs       *)
(* complete_request, which dispatches on the endpoint tag, calls the       *)
(* store / overlay / beacon-client collaborators and sends one             *)
(* Result<Value, String> on the request's reply channel.                   *)
(***************************************************************************)
EXTENDS Integers, Sequences, FiniteSets, TLC

(***************************************************************************)
(* Bounds of the model.                                                    *)
(***************************************************************************)
MaxReq == 2          \* requests sent in Spec (every endpoint)
MaxStoreReq == 3     \* requests sent in SpecStore (LocalContent and Store only)

ReqIds == 1..(IF MaxReq > MaxStoreReq THEN MaxReq ELSE MaxStoreReq)

(* Option<T>: None is the empty set, Some(x) the singleton. *)
None == {}
Some(x) == {x}
Unwrap(opt) == CHOOSE x \in opt : TRUE

(***************************************************************************)
(* Input domains.                                                          *)
(***************************************************************************)
Keys == {"k1", "k2"}
ContentValues == {"vDEAD", "vBEEF"}
EnrSet == {"enrA"}
NodeIds == {"nodeA"}
Offsets == {0, 1}
Limits == {1}
LocalEnr == "enrLocal"
ErrText == "E"          \* the text of an overlay or beacon-client error
DbErrText == "D"        \* the text of a store error

(***************************************************************************)
(* Result<Value, String> and the serde_json values the handlers build.     *)
(***************************************************************************)
Ok(v) == [ok |-> TRUE, val |-> v]
Err(s) == [ok |-> FALSE, val |-> [t |-> "Text", v |-> s]]
(* Err(json.to_string()): the error string is the text of a JSON value. *)
ErrJson(obj) == [ok |-> FALSE, val |-> [t |-> "JsonText", v |-> obj]]
JString(s) == [t |-> "String", v |-> s]
JBool(b) == [t |-> "Bool", v |-> b]
JValue(kind, x) == [t |-> kind, v |-> x]

BoolStr(b) == IF b THEN "true" ELSE "false"

(***************************************************************************)
(* ethportal_api helpers used by the handlers.                             *)
(***************************************************************************)
HexDigits == <<"0", "1", "2", "3", "4", "5", "6", "7",
               "8", "9", "a", "b", "c", "d", "e", "f">>

RECURSIVE HexBody(_)
HexBody(bytes) ==
    IF bytes = <<>> THEN ""
    ELSE HexDigits[(Head(bytes) \div 16) + 1] \o HexDigits[(Head(bytes) % 16) + 1]
         \o HexBody(Tail(bytes))

hex_encode(bytes) == "0x" \o HexBody(bytes)

encode(content_value) ==
    IF content_value = "vDEAD" THEN <<222, 173>> ELSE <<190, 239>>

content_id(content_key) == "id(" \o content_key \o ")"

QueryTraceNew(enr, target) ==
    [origin |-> enr, target_id |-> target, received_from |-> None, responses |-> {}]

node_responded_with_content(trace, enr) ==
    [trace EXCEPT !.received_from = Some(enr), !.responses = @ \cup {enr}]

(***************************************************************************)
(* BeaconEndpoint: the closed enumeration complete_request matches on.     *)
(***************************************************************************)
RfcTags == {"RecursiveFindContent", "TraceRecursiveFindContent"}
SyncTags == {"AddEnr", "DataRadius", "DeleteEnr", "GetEnr", "Gossip", "RoutingTableInfo"}
AsyncTags == {"FindContent", "FindNodes", "TraceGossip", "LookupEnr", "Offer",
              "WireOffer", "Ping", "RecursiveFindNodes"}
BeaconTags == {"OptimisticStateRoot", "FinalizedStateRoot"}

BeaconEndpoint ==
    {[tag |-> "LocalContent", key |-> k] : k \in Keys}
    \cup {[tag |-> "PaginateLocalContentKeys", offset |-> o, limit |-> l] :
            o \in Offsets, l \in Limits}
    \cup {[tag |-> "Store", key |-> k, value |-> v] : k \in Keys, v \in ContentValues}
    \cup {[tag |-> t, key |-> "k1"] : t \in RfcTags}
    \cup {[tag |-> t, enr |-> e] : t \in {"AddEnr", "FindNodes", "WireOffer", "Ping"},
                                   e \in EnrSet}
    \cup {[tag |-> t, node_id |-> n] :
            t \in {"DeleteEnr", "GetEnr", "LookupEnr", "RecursiveFindNodes"}, n \in NodeIds}
    \cup {[tag |-> t, enr |-> e, key |-> "k1"] : t \in {"FindContent"}, e \in EnrSet}
    \cup {[tag |-> t, key |-> "k1", value |-> "vDEAD"] : t \in {"Gossip", "TraceGossip"}}
    \cup {[tag |-> "Offer", enr |-> e, key |-> "k1", value |-> "vDEAD"] : e \in EnrSet}
    \cup {[tag |-> t] : t \in {"DataRadius", "RoutingTableInfo"} \cup BeaconTags}

(***************************************************************************)
(* Outcomes of the collaborators that the handlers call.  A collaborator   *)
(* is outside this layer: each call returns one of its possible results.   *)
(***************************************************************************)
ROk(v) == [ok |-> TRUE, val |-> v]
RErr(e) == [ok |-> FALSE, err |-> e]

NetBytes == <<202, 254>>
OverlayTrace(content_key) ==
    node_responded_with_content(QueryTraceNew(LocalEnr, content_id(content_key)), "enrA")

(* store.get(&content_key) on the contents st *)
StoreGetResults(st, content_key) == {ROk(st[content_key]), RErr(DbErrText)}

(* store.paginate(&offset, &limit) on the contents st: the stored keys in  *)
(* order, from offset, at most limit of them, and the total.               *)
RECURSIVE SortedKeys(_)
SortedKeys(ks) ==
    IF ks = {} THEN <<>>
    ELSE LET m == CHOOSE k \in ks : k = "k1" \/ ks = {k}
         IN <<m>> \o SortedKeys(ks \ {m})

Paginate(st, offset, limit) ==
    LET all == SortedKeys({k \in Keys : st[k] # None})
        lo == offset + 1
        hi == IF offset + limit < Len(all) THEN offset + limit ELSE Len(all)
    IN [content_keys |-> SubSeq(all, lo, hi), total_entries |-> Len(all)]

StorePaginateResults(st, offset, limit) ==
    {ROk(Paginate(st, offset, limit)), RErr(DbErrText)}

(* store.put(content_key, data) *)
StorePutResults == {ROk("unit"), RErr(DbErrText)}

(* overlay.lookup_content(content_key, is_trace).await *)
LookupContentResults(content_key) ==
    {[r |-> "RecvErr", err |-> ErrText]}
    \cup {[r |-> "Found", content |-> NetBytes, utp_transfer |-> TRUE, trace |-> t] :
            t \in {None, Some(OverlayTrace(content_key))}}
    \cup {[r |-> "ContentNotFound", message |-> "no providers", utp |-> u,
            trace |-> IF u THEN None ELSE Some(OverlayTrace(content_key))] :
            u \in BOOLEAN}
    \cup {[r |-> "OtherErr", err |-> ErrText]}

(* overlay.send_find_content(enr, content_key).await *)
SendFindContentResults ==
    {ROk([content |-> [variant |-> "ConnectionId", id |-> 42], utp_transfer |-> FALSE]),
     ROk([content |-> [variant |-> "Content", bytes |-> NetBytes], utp_transfer |-> TRUE]),
     ROk([content |-> [variant |-> "Content", bytes |-> NetBytes], utp_transfer |-> FALSE]),
     ROk([content |-> [variant |-> "Enrs", enrs |-> <<"enrA">>], utp_transfer |-> FALSE]),
     RErr(ErrText)}

(* the other overlay operations: a value or an error *)
ValueOrErr(v) == {ROk(v), RErr(ErrText)}
ValueOnly(v) == {ROk(v)}

(***************************************************************************)
(* The handlers, as functions of the results their collaborators return.   *)
(***************************************************************************)

(* local_content that returns the hex digits without the 0x prefix *)
local_content_no_prefix(content_key, got) ==
    IF got.ok
    THEN IF got.val # None
         THEN Ok(JString(HexBody(Unwrap(got.val))))
         ELSE Err("Content not found in local storage")
    ELSE Err("Database error while looking for content key in local storage: "
             \o content_key \o ", with error: " \o got.err)

(* local_content: lines 201-213 *)
local_content(content_key, got) ==
    IF got.ok
    THEN IF got.val # None
         THEN Ok(JString(hex_encode(Unwrap(got.val))))
         ELSE Err("Content not found in local storage")
    ELSE Err("Database error while looking for content key in local storage: "
             \o content_key \o ", with error: " \o got.err)

(* paginate_local_content_keys: lines 222-229 *)
paginate_local_content_keys(offset, limit, got) ==
    IF got.ok
    THEN Ok(JValue("PaginateLocalContentKeysInfo", got.val))
    ELSE Err("Database error while paginating local content keys with offset: "
             \o ToString(offset) \o ", limit: " \o ToString(limit)
             \o ". Error message: " \o got.err)

(* store that returns a failed put as Err, as the other handlers do *)
store_err(put) ==
    IF put.ok THEN Ok(JBool(TRUE)) ELSE Err(put.err)

(* store: lines 239-248 *)
store(put) ==
    IF put.ok THEN Ok(JBool(TRUE)) ELSE Ok(JString(put.err))

(* a probe that answers a store read error with empty bytes *)
rfc_local_content_on_error(got) ==
    IF got.ok THEN got.val ELSE Some(<<>>)

(* recursive_find_content, the local probe: lines 124-135 *)
rfc_local_content(got) ==
    IF got.ok THEN got.val ELSE None

(* a local hit that builds no trace *)
rfc_local_hit_untraced(content_key, val, is_trace) ==
    [content_bytes |-> val, utp_transfer |-> FALSE, trace |-> None]

(* recursive_find_content, the local hit: lines 137-142 *)
rfc_local_hit(content_key, val, is_trace) ==
    LET local_enr == LocalEnr
        trace == node_responded_with_content(
                     QueryTraceNew(LocalEnr, content_id(content_key)), local_enr)
    IN [content_bytes |-> val, utp_transfer |-> FALSE,
        trace |-> IF is_trace THEN Some(trace) ELSE None]

(* rfc_format that falls back to the untraced payload when no trace came *)
rfc_format_untraced_fallback(found, is_trace) ==
    LET content_response_string == hex_encode(found.content_bytes)
    IN IF ~is_trace \/ found.trace = None
       THEN Ok(JValue("ContentInfo::Content",
                      [content |-> content_response_string,
                       utpTransfer |-> found.utp_transfer]))
       ELSE Ok(JValue("TraceContentInfo",
                      [content |-> content_response_string,
                       utpTransfer |-> found.utp_transfer,
                       trace |-> Unwrap(found.trace)]))

(* recursive_find_content, formatting the result: lines 176-193 *)
rfc_format(found, is_trace) ==
    LET content_response_string == hex_encode(found.content_bytes)
    IN IF ~is_trace
       THEN Ok(JValue("ContentInfo::Content",
                      [content |-> content_response_string,
                       utpTransfer |-> found.utp_transfer]))
       ELSE IF found.trace # None
            THEN Ok(JValue("TraceContentInfo",
                           [content |-> content_response_string,
                            utpTransfer |-> found.utp_transfer,
                            trace |-> Unwrap(found.trace)]))
            ELSE Err("Content query trace requested but none provided.")

(* rfc_lookup without the ContentNotFound arm: every error is stringified *)
rfc_lookup_flat(out, is_trace) ==
    CASE out.r = "RecvErr" -> Err(out.err)
      [] out.r = "Found" ->
            rfc_format([content_bytes |-> out.content,
                        utp_transfer |-> out.utp_transfer,
                        trace |-> out.trace], is_trace)
      [] out.r = "ContentNotFound" -> Err("content not found: " \o out.message)
      [] OTHER -> Err(out.err)

(* recursive_find_content, the overlay lookup's result: lines 144-172 *)
rfc_lookup(out, is_trace) ==
    CASE out.r = "RecvErr" -> Err(out.err)
      [] out.r = "Found" ->
            rfc_format([content_bytes |-> out.content,
                        utp_transfer |-> out.utp_transfer,
                        trace |-> out.trace], is_trace)
      [] out.r = "ContentNotFound" ->
            ErrJson([message |-> out.message \o ": utp: " \o BoolStr(out.utp),
                     trace |-> out.trace])
      [] OTHER -> Err(out.err)

(* find_content that answers a connection id as a success *)
find_content_connection_ok(out) ==
    IF out.ok
    THEN CASE out.val.content.variant = "ConnectionId" ->
                Ok(JValue("Object", [connectionId |-> out.val.content.id]))
           [] out.val.content.variant = "Content" ->
                Ok(JValue("Object", [content |-> hex_encode(out.val.content.bytes),
                                     utpTransfer |-> out.val.utp_transfer]))
           [] OTHER ->
                Ok(JValue("Object", [enrs |-> out.val.content.enrs]))
    ELSE Err("FindContent request timeout: " \o out.err)

(* find_content: lines 290-304 *)
find_content(out) ==
    IF out.ok
    THEN CASE out.val.content.variant = "ConnectionId" ->
                Err("FindContent request returned a connection id ("
                    \o ToString(out.val.content.id)
                    \o ") instead of conducting utp transfer.")
           [] out.val.content.variant = "Content" ->
                Ok(JValue("Object", [content |-> hex_encode(out.val.content.bytes),
                                     utpTransfer |-> out.val.utp_transfer]))
           [] OTHER ->
                Ok(JValue("Object", [enrs |-> out.val.content.enrs]))
    ELSE Err("FindContent request timeout: " \o out.err)

(* add_enr: lines 256-259 *)
add_enr(out) ==
    IF out.ok THEN Ok(JBool(TRUE)) ELSE Err("AddEnr failed: " \o out.err)

(* get_enr: lines 264-267 *)
get_enr(out) ==
    IF out.ok THEN Ok(JValue("Enr", out.val)) ELSE Err("GetEnr failed: " \o out.err)

(* delete_enr: lines 272-273 *)
delete_enr(out) == Ok(JBool(out.val))

(* lookup_enr: lines 278-281 *)
lookup_enr(out) ==
    IF out.ok THEN Ok(JValue("Enr", out.val)) ELSE Err("LookupEnr failed: " \o out.err)

(* find_nodes: lines 313-320 *)
find_nodes(out) ==
    IF out.ok THEN Ok(JValue("FindNodesInfo", out.val))
    ELSE Err("FindNodes request timeout: " \o out.err)

(* gossip: lines 330-342 *)
gossip(out, is_trace) ==
    IF is_trace THEN Ok(JValue("TraceGossipInfo", out.val))
    ELSE Ok(JValue("Number", out.val))

(* offer: lines 352-361 *)
offer(out) ==
    IF out.ok THEN Ok(JValue("AcceptInfo", [content_keys |-> out.val]))
    ELSE Err("Offer request timeout: " \o out.err)

(* wire_offer: lines 370-375 *)
wire_offer(out) ==
    IF out.ok THEN Ok(JValue("AcceptInfo", [content_keys |-> out.val]))
    ELSE Err("WireOffer request timeout: " \o out.err)

(* ping: lines 383-389 *)
ping(out) ==
    IF out.ok THEN Ok(JValue("PongInfo", [enr_seq |-> out.val.enr_seq,
                                          data_radius |-> out.val.custom_payload]))
    ELSE Err("Ping request timeout: " \o out.err)

(* recursive_find_nodes: lines 397-398 *)
recursive_find_nodes(out) == Ok(JValue("Enrs", out.val))

(* DataRadius arm: lines 58-61 *)
data_radius(out) == Ok(JValue("U256", out.val))

(* RoutingTableInfo arm: lines 82-85 *)
routing_table_info(out) ==
    IF out.ok THEN Ok(JValue("RoutingTableInfo", out.val)) ELSE Err(out.err)

(* OptimisticStateRoot / FinalizedStateRoot arms, Some(client): lines 91-95, 104-108 *)
state_root(header) ==
    IF header.ok THEN Ok(JValue("B256", header.val.state_root)) ELSE Err(header.err)

(* OptimisticStateRoot / FinalizedStateRoot arms, None: lines 97, 110 *)
state_root_no_client == Err("Beacon client not initialized")

(***************************************************************************)
(* The match of complete_request (lines 43-113) for the arms that make one *)
(* overlay call: the operation called, what it can return, and the reply.  *)
(***************************************************************************)
OverlayOp(tag) ==
    CASE tag = "AddEnr" -> "add_enr"
      [] tag = "DataRadius" -> "data_radius"
      [] tag = "DeleteEnr" -> "delete_enr"
      [] tag = "GetEnr" -> "get_enr"
      [] tag = "Gossip" -> "propagate_gossip"
      [] tag = "RoutingTableInfo" -> "routing_table_info"
      [] tag = "FindContent" -> "send_find_content"
      [] tag = "FindNodes" -> "send_find_nodes"
      [] tag = "TraceGossip" -> "propagate_gossip_trace"
      [] tag = "LookupEnr" -> "lookup_enr"
      [] tag = "Offer" -> "send_offer"
      [] tag = "WireOffer" -> "send_wire_offer"
      [] tag = "Ping" -> "send_ping"
      [] tag = "RecursiveFindNodes" -> "lookup_node"

OverlayResults(tag) ==
    CASE tag = "AddEnr" -> ValueOrErr("inserted")
      [] tag = "DataRadius" -> ValueOnly("radius")
      [] tag = "DeleteEnr" -> {ROk(TRUE), ROk(FALSE)}
      [] tag = "GetEnr" -> ValueOrErr("enrA")
      [] tag = "Gossip" -> ValueOnly(1)
      [] tag = "RoutingTableInfo" -> ValueOrErr("table")
      [] tag = "FindContent" -> SendFindContentResults
      [] tag = "FindNodes" -> ValueOrErr(<<"enrA">>)
      [] tag = "TraceGossip" -> ValueOnly("gossip trace")
      [] tag = "LookupEnr" -> ValueOrErr("enrA")
      [] tag = "Offer" -> ValueOrErr("bits")
      [] tag = "WireOffer" -> ValueOrErr("bits")
      [] tag = "Ping" -> ValueOrErr([enr_seq |-> 1, custom_payload |-> "radius"])
      [] tag = "RecursiveFindNodes" -> ValueOnly(<<"enrA">>)

OverlayReply(tag, out) ==
    CASE tag = "AddEnr" -> add_enr(out)
      [] tag = "DataRadius" -> data_radius(out)
      [] tag = "DeleteEnr" -> delete_enr(out)
      [] tag = "GetEnr" -> get_enr(out)
      [] tag = "Gossip" -> gossip(out, FALSE)
      [] tag = "RoutingTableInfo" -> routing_table_info(out)
      [] tag = "FindContent" -> find_content(out)
      [] tag = "FindNodes" -> find_nodes(out)
      [] tag = "TraceGossip" -> gossip(out, TRUE)
      [] tag = "LookupEnr" -> lookup_enr(out)
      [] tag = "Offer" -> offer(out)
      [] tag = "WireOffer" -> wire_offer(out)
      [] tag = "Ping" -> ping(out)
      [] tag = "RecursiveFindNodes" -> recursive_find_nodes(out)

HeaderOp(tag) ==
    IF tag = "OptimisticStateRoot" THEN "get_header" ELSE "get_finalized_header"

HeaderResults == {ROk([state_root |-> "0xroot"]), RErr(ErrText)}

(***************************************************************************)
(* State.                                                                  *)
(***************************************************************************)
VARIABLES
    rpc_rx,         \* the intake queue: ids of the requests sent and not yet received
    closed,         \* every sender of the intake queue has been dropped
    router,         \* handle_client_queries: "running" | "done" | "panicked"
    req,            \* request id -> its endpoint (NoReq before it is sent and once dropped)
    pc,             \* request id -> position of its task in complete_request
    rfc_local,      \* recursive_find_content's local_content: Option<Vec<u8>>
    ret,            \* the result the task's last collaborator call returned
    response,       \* complete_request's response, once computed
    calls,          \* the collaborator operations the running task has invoked, in order
    overlay_store,  \* network.overlay.store contents: key -> Option<Vec<u8>>
    store_lock,     \* the store's RwLock: the tasks holding a read / the write guard
    beacon_client,  \* network.beacon_client contents: Option<client>
    beacon_mutex,   \* the task holding the beacon_client mutex guard, if any
    resp,           \* request id -> its reply channel
    last_writer,    \* key -> the Store task whose put last succeeded for it, and its value
    present_at_probe \* the store held the key when recursive_find_content probed it

vars == <<rpc_rx, closed, router, req, pc, rfc_local, ret, response, calls,
          overlay_store, store_lock, beacon_client, beacon_mutex, resp,
          last_writer, present_at_probe>>

NoReq == [tag |-> "NoReq"]

Running == {"start", "store_locked", "rfc_locked", "rfc_probed", "rfc_await",
            "await", "bc_locked", "bc_await", "bc_done", "send"}
(* positions at which the task is suspended in a collaborator's future *)
Awaiting == {"rfc_await", "await", "bc_await"}

NewChannel == [msgs |-> <<>>, tx |-> TRUE, rx |-> TRUE, sends |-> 0]

Init ==
    /\ rpc_rx = <<>>
    /\ closed = FALSE
    /\ router = "running"
    /\ req = [i \in ReqIds |-> NoReq]
    /\ pc = [i \in ReqIds |-> "none"]
    /\ rfc_local = [i \in ReqIds |-> None]
    /\ ret = [i \in ReqIds |-> None]
    /\ response = [i \in ReqIds |-> None]
    /\ calls = [i \in ReqIds |-> <<>>]
    /\ overlay_store \in {[k \in Keys |-> None],
                         [k \in Keys |-> IF k = "k1" THEN Some(<<222, 173>>) ELSE None]}
    /\ store_lock = [readers |-> {}, writer |-> {}]
    /\ beacon_client \in {None, Some("client")}
    /\ beacon_mutex = None
    /\ resp = [i \in ReqIds |-> NewChannel]
    /\ last_writer = [k \in Keys |-> None]
    /\ present_at_probe = [i \in ReqIds |-> FALSE]

Tag(i) == req[i].tag
IsTrace(i) == Tag(i) = "TraceRecursiveFindContent"

(***************************************************************************)
(* The producer side of the intake queue and the clients.                  *)
(***************************************************************************)
(* the next request, number i of at most limit, is sent on the intake queue *)
Submit(e, limit) ==
    /\ ~closed
    /\ \E i \in 1..limit :
        /\ pc[i] = "none"
        /\ \A j \in ReqIds : j < i => pc[j] # "none"
        /\ req' = [req EXCEPT ![i] = e]
        /\ pc' = [pc EXCEPT ![i] = "queued"]
        /\ rpc_rx' = Append(rpc_rx, i)
    /\ UNCHANGED <<closed, router, rfc_local, ret, response, calls, overlay_store,
                   store_lock, beacon_client, beacon_mutex, resp, last_writer, present_at_probe>>

Enqueue(e) == Submit(e, MaxReq)

Close ==
    /\ ~closed
    /\ closed' = TRUE
    /\ UNCHANGED <<rpc_rx, router, req, pc, rfc_local, ret, response, calls,
                   overlay_store, store_lock, beacon_client, beacon_mutex, resp,
                   last_writer, present_at_probe>>

ClientDrop(i) ==
    /\ pc[i] # "none"
    /\ resp[i].tx
    /\ resp[i].rx
    /\ resp' = [resp EXCEPT ![i].rx = FALSE]
    /\ UNCHANGED <<rpc_rx, closed, router, req, pc, rfc_local, ret, response, calls,
                   overlay_store, store_lock, beacon_client, beacon_mutex,
                   last_writer, present_at_probe>>

(***************************************************************************)
(* handle_client_queries: lines 33-38.                                     *)
(***************************************************************************)
(* a router that awaits each handler before it receives the next request *)
RouterRecvInline ==
    /\ router = "running"
    /\ \A j \in ReqIds : pc[j] \notin Running
    /\ rpc_rx # <<>>
    /\ pc' = [pc EXCEPT ![Head(rpc_rx)] = "start"]
    /\ rpc_rx' = Tail(rpc_rx)
    /\ UNCHANGED <<closed, router, req, rfc_local, ret, response, calls,
                   overlay_store, store_lock, beacon_client, beacon_mutex, resp,
                   last_writer, present_at_probe>>

(* recv() yields Some(request): the request is moved into a spawned task *)
RouterRecv ==
    /\ router = "running"
    /\ rpc_rx # <<>>
    /\ pc' = [pc EXCEPT ![Head(rpc_rx)] = "start"]
    /\ rpc_rx' = Tail(rpc_rx)
    /\ UNCHANGED <<closed, router, req, rfc_local, ret, response, calls,
                   overlay_store, store_lock, beacon_client, beacon_mutex, resp,
                   last_writer, present_at_probe>>

(* a router that returns as soon as the queue is empty (try_recv) *)
RouterStopWhenEmpty ==
    /\ router = "running"
    /\ rpc_rx = <<>>
    /\ router' = "done"
    /\ UNCHANGED <<rpc_rx, closed, req, pc, rfc_local, ret, response, calls,
                   overlay_store, store_lock, beacon_client, beacon_mutex, resp,
                   last_writer, present_at_probe>>

(* recv() yields None, the queue being closed and empty: the loop ends *)
RouterStop ==
    /\ router = "running"
    /\ rpc_rx = <<>>
    /\ closed
    /\ router' = "done"
    /\ UNCHANGED <<rpc_rx, closed, req, pc, rfc_local, ret, response, calls,
                   overlay_store, store_lock, beacon_client, beacon_mutex, resp,
                   last_writer, present_at_probe>>

(***************************************************************************)
(* complete_request, one task per request: lines 42-115.                   *)
(***************************************************************************)
RouterUnchanged ==
    UNCHANGED <<rpc_rx, closed, router, req, beacon_client, present_at_probe>>

ReleaseStore(lock, i) ==
    [readers |-> lock.readers \ {i}, writer |-> lock.writer \ {i}]

(* LocalContent arm, line 44: local_content takes the read guard and calls get *)
LocalContentGet(i) ==
    /\ pc[i] = "start" /\ Tag(i) = "LocalContent"
    /\ store_lock.writer = {}
    /\ \E got \in StoreGetResults(overlay_store, req[i].key) :
        /\ ret' = [ret EXCEPT ![i] = Some(got)]
        /\ response' = [response EXCEPT ![i] = Some(local_content(req[i].key, got))]
    /\ store_lock' = [store_lock EXCEPT !.readers = @ \cup {i}]
    /\ calls' = [calls EXCEPT ![i] = Append(@, "store.get")]
    /\ pc' = [pc EXCEPT ![i] = "store_locked"]
    /\ UNCHANGED <<rfc_local, overlay_store, beacon_mutex, resp, last_writer>>
    /\ RouterUnchanged

(* PaginateLocalContentKeys arm, lines 45-47 *)
PaginateGet(i) ==
    /\ pc[i] = "start" /\ Tag(i) = "PaginateLocalContentKeys"
    /\ store_lock.writer = {}
    /\ \E got \in StorePaginateResults(overlay_store, req[i].offset, req[i].limit) :
        /\ ret' = [ret EXCEPT ![i] = Some(got)]
        /\ response' = [response EXCEPT ![i] =
                           Some(paginate_local_content_keys(req[i].offset, req[i].limit, got))]
    /\ store_lock' = [store_lock EXCEPT !.readers = @ \cup {i}]
    /\ calls' = [calls EXCEPT ![i] = Append(@, "store.paginate")]
    /\ pc' = [pc EXCEPT ![i] = "store_locked"]
    /\ UNCHANGED <<rfc_local, overlay_store, beacon_mutex, resp, last_writer>>
    /\ RouterUnchanged

(* Store arm, lines 48-50: store encodes, takes the write guard and calls put *)
StorePut(i) ==
    /\ pc[i] = "start" /\ Tag(i) = "Store"
    /\ store_lock.writer = {} /\ store_lock.readers = {}
    /\ LET data == encode(req[i].value)
       IN \E put \in StorePutResults :
            /\ overlay_store' = IF put.ok
                                THEN [overlay_store EXCEPT ![req[i].key] = Some(data)]
                                ELSE overlay_store
            /\ last_writer' = IF put.ok
                              THEN [last_writer EXCEPT ![req[i].key] =
                                       Some([id |-> i, value |-> req[i].value])]
                              ELSE last_writer
            /\ ret' = [ret EXCEPT ![i] = Some(put)]
            /\ response' = [response EXCEPT ![i] = Some(store(put))]
    /\ store_lock' = [store_lock EXCEPT !.writer = {i}]
    /\ calls' = [calls EXCEPT ![i] = Append(@, "store.put")]
    /\ pc' = [pc EXCEPT ![i] = "store_locked"]
    /\ UNCHANGED <<rfc_local, beacon_mutex, resp>>
    /\ RouterUnchanged

(* the guard is dropped at the end of the match statement: lines 212, 228, 247 *)
StoreUnlock(i) ==
    /\ pc[i] = "store_locked"
    /\ store_lock' = ReleaseStore(store_lock, i)
    /\ pc' = [pc EXCEPT ![i] = "send"]
    /\ UNCHANGED <<rfc_local, ret, response, calls, overlay_store, beacon_mutex, resp,
                   last_writer>>
    /\ RouterUnchanged

(* recursive_find_content, the local probe under the read guard: lines 124-134 *)
RfcProbe(i) ==
    /\ pc[i] = "start" /\ Tag(i) \in RfcTags
    /\ store_lock.writer = {}
    /\ \E got \in StoreGetResults(overlay_store, req[i].key) :
        /\ ret' = [ret EXCEPT ![i] = Some(got)]
        /\ rfc_local' = [rfc_local EXCEPT ![i] = rfc_local_content(got)]
    /\ store_lock' = [store_lock EXCEPT !.readers = @ \cup {i}]
    /\ calls' = [calls EXCEPT ![i] = Append(@, "store.get")]
    /\ pc' = [pc EXCEPT ![i] = "rfc_locked"]
    /\ UNCHANGED <<response, overlay_store, beacon_mutex, resp, last_writer>>
    /\ present_at_probe' = [present_at_probe EXCEPT ![i] = overlay_store[req[i].key] # None]
    /\ UNCHANGED <<rpc_rx, closed, router, req, beacon_client>>

(* a probe whose read guard is bound to a local and so lives on to the end *)
(* of recursive_find_content                                               *)
RfcUnlockLate(i) ==
    /\ pc[i] = "rfc_locked"
    /\ pc' = [pc EXCEPT ![i] = "rfc_probed"]
    /\ UNCHANGED <<rfc_local, ret, response, calls, overlay_store, store_lock,
                   beacon_mutex, resp, last_writer>>
    /\ RouterUnchanged

(* the read guard is dropped at the end of the let statement: line 135 *)
RfcUnlock(i) ==
    /\ pc[i] = "rfc_locked"
    /\ store_lock' = ReleaseStore(store_lock, i)
    /\ pc' = [pc EXCEPT ![i] = "rfc_probed"]
    /\ UNCHANGED <<rfc_local, ret, response, calls, overlay_store, beacon_mutex, resp,
                   last_writer>>
    /\ RouterUnchanged

(* a match on local_content that always takes the network arm *)
rfc_never_local(local) == FALSE

(* the match on local_content, line 136: Some(val) or None *)
rfc_is_local(local) == local # None

(* Some(val): lines 137-142, then 176-193; overlay.local_enr() is read on  *)
(* line 138 and again on line 139                                          *)
RfcLocalHit(i) ==
    /\ pc[i] = "rfc_probed"
    /\ rfc_is_local(rfc_local[i])
    /\ response' = [response EXCEPT ![i] =
           Some(rfc_format(rfc_local_hit(req[i].key, Unwrap(rfc_local[i]), IsTrace(i)),
                           IsTrace(i)))]
    /\ calls' = [calls EXCEPT ![i] = Append(Append(@, "local_enr"), "local_enr")]
    /\ pc' = [pc EXCEPT ![i] = "send"]
    /\ UNCHANGED <<rfc_local, ret, overlay_store, store_lock, beacon_mutex, resp,
                   last_writer>>
    /\ RouterUnchanged

(* None: lookup_content is called and awaited, lines 144-147 *)
RfcLookupCall(i) ==
    /\ pc[i] = "rfc_probed"
    /\ ~rfc_is_local(rfc_local[i])
    /\ calls' = [calls EXCEPT ![i] = Append(@, "lookup_content")]
    /\ pc' = [pc EXCEPT ![i] = "rfc_await"]
    /\ UNCHANGED <<rfc_local, ret, response, overlay_store, store_lock, beacon_mutex,
                   resp, last_writer>>
    /\ RouterUnchanged

(* a find-content handler that stores the content the overlay found *)
RfcLookupReturnCaching(i) ==
    /\ pc[i] = "rfc_await"
    /\ \E out \in LookupContentResults(req[i].key) :
        /\ ret' = [ret EXCEPT ![i] = Some(out)]
        /\ response' = [response EXCEPT ![i] = Some(rfc_lookup(out, IsTrace(i)))]
        /\ overlay_store' = IF out.r = "Found"
                            THEN [overlay_store EXCEPT ![req[i].key] = Some(out.content)]
                            ELSE overlay_store
    /\ pc' = [pc EXCEPT ![i] = "send"]
    /\ UNCHANGED <<rfc_local, calls, store_lock, beacon_mutex, resp, last_writer>>
    /\ RouterUnchanged

(* lookup_content returns: lines 148-172, then 176-193 *)
RfcLookupReturn(i) ==
    /\ pc[i] = "rfc_await"
    /\ \E out \in LookupContentResults(req[i].key) :
        /\ ret' = [ret EXCEPT ![i] = Some(out)]
        /\ response' = [response EXCEPT ![i] = Some(rfc_lookup(out, IsTrace(i)))]
    /\ pc' = [pc EXCEPT ![i] = "send"]
    /\ UNCHANGED <<rfc_local, calls, overlay_store, store_lock, beacon_mutex, resp,
                   last_writer>>
    /\ RouterUnchanged

(* the arms that call one synchronous overlay operation: lines 57-62, 67-70, 82-85 *)
OverlaySync(i) ==
    /\ pc[i] = "start" /\ Tag(i) \in SyncTags
    /\ \E out \in OverlayResults(Tag(i)) :
        /\ ret' = [ret EXCEPT ![i] = Some(out)]
        /\ response' = [response EXCEPT ![i] = Some(OverlayReply(Tag(i), out))]
    /\ calls' = [calls EXCEPT ![i] = Append(@, OverlayOp(Tag(i)))]
    /\ pc' = [pc EXCEPT ![i] = "send"]
    /\ UNCHANGED <<rfc_local, overlay_store, store_lock, beacon_mutex, resp, last_writer>>
    /\ RouterUnchanged

(* the arms that call and await one overlay operation: lines 63-66, 71-81, 86 *)
OverlayCall(i) ==
    /\ pc[i] = "start" /\ Tag(i) \in AsyncTags
    /\ calls' = [calls EXCEPT ![i] = Append(@, OverlayOp(Tag(i)))]
    /\ pc' = [pc EXCEPT ![i] = "await"]
    /\ UNCHANGED <<rfc_local, ret, response, overlay_store, store_lock, beacon_mutex,
                   resp, last_writer>>
    /\ RouterUnchanged

(* an overlay call that is made once more when it fails *)
OverlayReturnRetry(i) ==
    /\ pc[i] = "await"
    /\ \E out \in OverlayResults(Tag(i)) :
        /\ ret' = [ret EXCEPT ![i] = Some(out)]
        /\ IF ~out.ok /\ Len(calls[i]) < 2
           THEN /\ pc' = [pc EXCEPT ![i] = "start"]
                /\ UNCHANGED response
           ELSE /\ pc' = [pc EXCEPT ![i] = "send"]
                /\ response' = [response EXCEPT ![i] = Some(OverlayReply(Tag(i), out))]
    /\ UNCHANGED <<rfc_local, calls, overlay_store, store_lock, beacon_mutex, resp,
                   last_writer>>
    /\ RouterUnchanged

OverlayReturn(i) ==
    /\ pc[i] = "await"
    /\ \E out \in OverlayResults(Tag(i)) :
        /\ ret' = [ret EXCEPT ![i] = Some(out)]
        /\ response' = [response EXCEPT ![i] = Some(OverlayReply(Tag(i), out))]
    /\ pc' = [pc EXCEPT ![i] = "send"]
    /\ UNCHANGED <<rfc_local, calls, overlay_store, store_lock, beacon_mutex, resp,
                   last_writer>>
    /\ RouterUnchanged

(* a state-root arm that snapshots the client handle instead of holding    *)
(* the mutex across the header call                                        *)
BeaconLockSnapshot(i) ==
    /\ pc[i] = "start" /\ Tag(i) \in BeaconTags
    /\ pc' = [pc EXCEPT ![i] = "bc_locked"]
    /\ UNCHANGED <<rfc_local, ret, response, calls, overlay_store, store_lock,
                   beacon_mutex, resp, last_writer>>
    /\ RouterUnchanged

(* OptimisticStateRoot / FinalizedStateRoot: beacon_client.lock().await, lines 88, 101 *)
BeaconLock(i) ==
    /\ pc[i] = "start" /\ Tag(i) \in BeaconTags
    /\ beacon_mutex = None
    /\ beacon_mutex' = Some(i)
    /\ pc' = [pc EXCEPT ![i] = "bc_locked"]
    /\ UNCHANGED <<rfc_local, ret, response, calls, overlay_store, store_lock, resp,
                   last_writer>>
    /\ RouterUnchanged

(* a match on beacon_client that takes the Some arm without a client *)
has_client_always(client) == TRUE

(* the match on beacon_client.as_ref(), lines 89, 102 *)
has_client(client) == client # None

(* None: lines 97, 110 *)
BeaconNoClient(i) ==
    /\ pc[i] = "bc_locked"
    /\ ~has_client(beacon_client)
    /\ response' = [response EXCEPT ![i] = Some(state_root_no_client)]
    /\ pc' = [pc EXCEPT ![i] = "bc_done"]
    /\ UNCHANGED <<rfc_local, ret, calls, overlay_store, store_lock, beacon_mutex, resp,
                   last_writer>>
    /\ RouterUnchanged

(* Some(client): the header call is made and awaited, lines 91, 104 *)
BeaconHeaderCall(i) ==
    /\ pc[i] = "bc_locked"
    /\ has_client(beacon_client)
    /\ calls' = [calls EXCEPT ![i] = Append(@, HeaderOp(Tag(i)))]
    /\ pc' = [pc EXCEPT ![i] = "bc_await"]
    /\ UNCHANGED <<rfc_local, ret, response, overlay_store, store_lock, beacon_mutex,
                   resp, last_writer>>
    /\ RouterUnchanged

(* a state-root arm that takes the store's write guard for the header it   *)
(* got, while it holds the beacon-client mutex                             *)
BeaconHeaderReturnStoring(i) ==
    /\ pc[i] = "bc_await"
    /\ store_lock.writer = {} /\ store_lock.readers = {}
    /\ \E header \in HeaderResults :
        /\ ret' = [ret EXCEPT ![i] = Some(header)]
        /\ response' = [response EXCEPT ![i] = Some(state_root(header))]
    /\ store_lock' = [store_lock EXCEPT !.writer = {i}]
    /\ calls' = [calls EXCEPT ![i] = Append(@, "store.put")]
    /\ pc' = [pc EXCEPT ![i] = "bc_done"]
    /\ UNCHANGED <<rfc_local, overlay_store, beacon_mutex, resp, last_writer>>
    /\ RouterUnchanged

(* the header call returns: lines 92-95, 105-108 *)
BeaconHeaderReturn(i) ==
    /\ pc[i] = "bc_await"
    /\ \E header \in HeaderResults :
        /\ ret' = [ret EXCEPT ![i] = Some(header)]
        /\ response' = [response EXCEPT ![i] = Some(state_root(header))]
    /\ pc' = [pc EXCEPT ![i] = "bc_done"]
    /\ UNCHANGED <<rfc_local, calls, overlay_store, store_lock, beacon_mutex, resp,
                   last_writer>>
    /\ RouterUnchanged

(* a state-root arm whose guard is bound outside the match and so lives on *)
(* past the send                                                           *)
BeaconUnlockAtReturn(i) ==
    /\ pc[i] = "bc_done"
    /\ pc' = [pc EXCEPT ![i] = "send"]
    /\ UNCHANGED <<rfc_local, ret, response, calls, overlay_store, store_lock,
                   beacon_mutex, resp, last_writer>>
    /\ RouterUnchanged

(* the mutex guard is dropped at the end of the arm's block: lines 99, 112 *)
BeaconUnlock(i) ==
    /\ pc[i] = "bc_done"
    /\ beacon_mutex' = beacon_mutex \ {i}
    /\ pc' = [pc EXCEPT ![i] = "send"]
    /\ UNCHANGED <<rfc_local, ret, response, calls, overlay_store, store_lock, resp,
                   last_writer>>
    /\ RouterUnchanged

(* a send that is repeated *)
resp_send_twice(chan, message) ==
    [chan EXCEPT !.msgs = IF chan.rx THEN Append(Append(@, message), message) ELSE @,
                 !.sends = @ + 2]

(* request.resp.send(response), line 114: delivered if the receiver is alive *)
resp_send(chan, message) ==
    [chan EXCEPT !.msgs = IF chan.rx THEN Append(@, message) ELSE @,
                 !.sends = @ + 1]

(* the sender is dropped with the request: line 115, or the unwinding of a panic *)
DropSender(chan) == [chan EXCEPT !.tx = FALSE]

(* a send whose result is unwrapped: the task panics when the receiver is  *)
(* gone, request.resp.send(response).unwrap()                              *)
SendUnwrap(i) ==
    /\ pc[i] = "send"
    /\ resp' = [resp EXCEPT ![i] = DropSender(resp_send(resp[i], Unwrap(response[i])))]
    /\ pc' = [pc EXCEPT ![i] = IF resp[i].rx THEN "done" ELSE "panicked"]
    /\ rfc_local' = [rfc_local EXCEPT ![i] = None]
    /\ ret' = [ret EXCEPT ![i] = None]
    /\ response' = [response EXCEPT ![i] = None]
    /\ req' = [req EXCEPT ![i] = NoReq]
    /\ calls' = [calls EXCEPT ![i] = <<>>]
    /\ present_at_probe' = [present_at_probe EXCEPT ![i] = FALSE]
    /\ UNCHANGED <<rpc_rx, closed, router, beacon_client, overlay_store, store_lock,
                   beacon_mutex, last_writer>>

(* let _ = request.resp.send(response); and the task returns: lines 114-115 *)
Send(i) ==
    /\ pc[i] = "send"
    /\ resp' = [resp EXCEPT ![i] = DropSender(resp_send(resp[i], Unwrap(response[i])))]
    /\ pc' = [pc EXCEPT ![i] = "done"]
    /\ rfc_local' = [rfc_local EXCEPT ![i] = None]
    /\ ret' = [ret EXCEPT ![i] = None]
    /\ response' = [response EXCEPT ![i] = None]
    /\ req' = [req EXCEPT ![i] = NoReq]
    /\ calls' = [calls EXCEPT ![i] = <<>>]
    /\ present_at_probe' = [present_at_probe EXCEPT ![i] = FALSE]
    /\ UNCHANGED <<rpc_rx, closed, router, beacon_client, overlay_store, store_lock,
                   beacon_mutex, last_writer>>

(* a router that joins the task and unwraps its result *)
spawn_join_unwrap(router_state) == "panicked"

(* tokio::spawn, line 36: the task's JoinHandle is dropped, so a panic that *)
(* unwinds the task ends that task alone and leaves the router as it is.   *)
spawn_panic(router_state) == router_state

(* A panic inside the task (a collaborator's, or json!'s unwrap): the task *)
(* unwinds, dropping its guards, its locals and the request's sender.      *)
Panic(i) ==
    /\ pc[i] \in Running
    /\ pc' = [pc EXCEPT ![i] = "panicked"]
    /\ router' = spawn_panic(router)
    /\ store_lock' = ReleaseStore(store_lock, i)
    /\ beacon_mutex' = beacon_mutex \ {i}
    /\ resp' = [resp EXCEPT ![i] = DropSender(resp[i])]
    /\ rfc_local' = [rfc_local EXCEPT ![i] = None]
    /\ ret' = [ret EXCEPT ![i] = None]
    /\ response' = [response EXCEPT ![i] = None]
    /\ req' = [req EXCEPT ![i] = NoReq]
    /\ calls' = [calls EXCEPT ![i] = <<>>]
    /\ present_at_probe' = [present_at_probe EXCEPT ![i] = FALSE]
    /\ UNCHANGED <<rpc_rx, closed, overlay_store, beacon_client, last_writer>>

(* one step of request i's task *)
TaskStep(i) ==
    \/ LocalContentGet(i) \/ PaginateGet(i) \/ StorePut(i) \/ StoreUnlock(i)
    \/ RfcProbe(i) \/ RfcUnlock(i) \/ RfcLocalHit(i) \/ RfcLookupCall(i)
    \/ OverlaySync(i) \/ OverlayCall(i)
    \/ BeaconLock(i) \/ BeaconNoClient(i) \/ BeaconHeaderCall(i) \/ BeaconUnlock(i)
    \/ Send(i)

(* a collaborator's future completes *)
CollaboratorReturn(i) ==
    RfcLookupReturn(i) \/ OverlayReturn(i) \/ BeaconHeaderReturn(i)

Next ==
    \/ \E e \in BeaconEndpoint : Enqueue(e)
    \/ Close
    \/ RouterRecv
    \/ RouterStop
    \/ \E i \in ReqIds : TaskStep(i)
    \/ \E i \in ReqIds : CollaboratorReturn(i)
    \/ \E i \in ReqIds : Panic(i)
    \/ \E i \in ReqIds : ClientDrop(i)

Spec == Init /\ [][Next]_vars

(***************************************************************************)
(* The same program with the environment narrowed to the store round trip: *)
(* only LocalContent and Store requests arrive, the producer keeps the     *)
(* queue open, no beacon client is configured, and no client goes away.    *)
(***************************************************************************)
StoreEndpoint == {e \in BeaconEndpoint : e.tag \in {"LocalContent", "Store"}}

EnqueueStore(e) == Submit(e, MaxStoreReq)

InitStore == Init /\ beacon_client = None

NextStore ==
    \/ \E e \in StoreEndpoint : EnqueueStore(e)
    \/ RouterRecv
    \/ \E i \in ReqIds : LocalContentGet(i)
    \/ \E i \in ReqIds : StorePut(i)
    \/ \E i \in ReqIds : StoreUnlock(i)
    \/ \E i \in ReqIds : Send(i)

SpecStore == InitStore /\ [][NextStore]_vars

(***************************************************************************)
(* Properties.                                                             *)
(***************************************************************************)
Range(seq) == {seq[n] : n \in 1..Len(seq)}
Called(i, op) == op \in Range(calls[i])
Terminated == {"done", "panicked"}

(* C1, as stated: once a request's reply channel is closed by the handler  *)
(* side (the sender is gone), the channel has received exactly one message. *)
C1_ExactlyOneMessage ==
    \A i \in ReqIds : ~resp[i].tx => Len(resp[i].msgs) = 1

(* C1, amended: a reply channel never receives more than one message and   *)
(* none before the handler's single send; a task that returns has sent     *)
(* exactly once and then closed the channel, and the message was delivered *)
(* if the client still held the receiver; a channel is closed with no      *)
(* message only when the task panicked or the client dropped the receiver. *)
C1_AtMostOneMessage ==
    \A i \in ReqIds :
        /\ Len(resp[i].msgs) <= 1 /\ resp[i].sends <= 1
        /\ pc[i] \notin Terminated => resp[i].tx /\ resp[i].msgs = <<>> /\ resp[i].sends = 0
        /\ pc[i] = "done" =>
              /\ ~resp[i].tx /\ resp[i].sends = 1
              /\ resp[i].rx => Len(resp[i].msgs) = 1
        /\ pc[i] = "panicked" => ~resp[i].tx /\ resp[i].msgs = <<>> /\ resp[i].sends = 0

(* two requests handled concurrently have each been answered once *)
C1_Witness ==
    \E i, j \in ReqIds :
        /\ i # j /\ pc[i] = "done" /\ pc[j] = "done"
        /\ Len(resp[i].msgs) = 1 /\ Len(resp[j].msgs) = 1

AnsweredTrue(k) ==
    /\ last_writer[k] # None
    /\ pc[Unwrap(last_writer[k]).id] = "done"
    /\ resp[Unwrap(last_writer[k]).id].msgs = <<Ok(JBool(TRUE))>>

LocalContentReads(i) ==
    /\ Tag(i) = "LocalContent" /\ pc[i] = "start" /\ pc'[i] = "store_locked"

(* C3, as stated: a LocalContent(k) handled after the last Store(k, v) was *)
(* answered true is answered Ok(hex(encode(v))).                           *)
C3_StoreThenLocalContent ==
    [][\A i \in ReqIds :
          (LocalContentReads(i) /\ AnsweredTrue(req[i].key)) =>
              response'[i] =
                  Some(Ok(JString(hex_encode(encode(Unwrap(last_writer[req[i].key]).value)))))
      ]_vars

(* C3, amended: the same, provided the store's get succeeds; when the get  *)
(* fails the reply is the database error.                                  *)
C3_StoreThenLocalContentRead ==
    [][\A i \in ReqIds :
          (LocalContentReads(i) /\ AnsweredTrue(req[i].key)) =>
              IF Unwrap(ret'[i]).ok
              THEN response'[i] =
                  Some(Ok(JString(hex_encode(encode(Unwrap(last_writer[req[i].key]).value)))))
              ELSE ~Unwrap(response'[i]).ok
      ]_vars

(* Store(k, vBEEF) was answered true and a later LocalContent(k) got 0xbeef *)
C3_Witness ==
    \E i \in ReqIds, k \in Keys :
        /\ Tag(i) = "LocalContent" /\ req[i].key = k /\ pc[i] = "send"
        /\ AnsweredTrue(k) /\ Unwrap(last_writer[k]).value = "vBEEF"
        /\ response[i] = Some(Ok(JString("0xbeef")))

(* the find-content handler of request i has returned response r *)
RfcReturns(i) == Tag(i) \in RfcTags /\ pc[i] = "send"
RfcViaOverlay(i) == RfcReturns(i) /\ Called(i, "lookup_content")

(* C4: when the find-content handler returns success with is_trace = true  *)
(* the payload is a TraceContentInfo carrying a non-empty trace, and with  *)
(* is_trace = false it is ContentInfo::Content with no trace field, on the *)
(* local-hit path and on the overlay-lookup path.                          *)
C4_TracePresence ==
    \A i \in ReqIds :
        (RfcReturns(i) /\ Unwrap(response[i]).ok) =>
            LET payload == Unwrap(response[i]).val
            IN IF IsTrace(i)
               THEN /\ payload.t = "TraceContentInfo"
                    /\ DOMAIN payload.v = {"content", "utpTransfer", "trace"}
                    /\ payload.v.trace.responses # {}
                    /\ payload.v.trace.received_from # None
                    /\ payload.v.trace.target_id = content_id(req[i].key)
               ELSE /\ payload.t = "ContentInfo::Content"
                    /\ DOMAIN payload.v = {"content", "utpTransfer"}

(* a traced local hit and an untraced overlay lookup both return success *)
C4_Witness ==
    \E i, j \in ReqIds :
        /\ RfcReturns(i) /\ IsTrace(i) /\ ~Called(i, "lookup_content")
        /\ Unwrap(response[i]).ok
        /\ RfcViaOverlay(j) /\ ~IsTrace(j) /\ Unwrap(response[j]).ok

(* C5: with no beacon client configured, every OptimisticStateRoot and     *)
(* FinalizedStateRoot request is answered Err("Beacon client not           *)
(* initialized") and no header call is made for it.                        *)
C5_BeaconAbsent ==
    beacon_client = None =>
        \A i \in ReqIds :
            Tag(i) \in BeaconTags =>
                /\ ~Called(i, "get_header") /\ ~Called(i, "get_finalized_header")
                /\ pc[i] # "bc_await"
                /\ pc[i] \in {"bc_done", "send"} =>
                      response[i] = Some(Err("Beacon client not initialized"))

(* both state-root endpoints are about to reply without a client *)
C5_Witness ==
    /\ beacon_client = None
    /\ \E i, j \in ReqIds :
        /\ Tag(i) = "OptimisticStateRoot" /\ pc[i] = "send"
        /\ Tag(j) = "FinalizedStateRoot" /\ pc[j] = "send"

(* C6: a Store request is never answered with Err: Ok(true) when the put   *)
(* succeeds, Ok(string carrying the error message) when it fails.          *)
C6_StoreAlwaysOk ==
    \A i \in ReqIds :
        (Tag(i) = "Store" /\ response[i] # None) =>
            /\ Unwrap(response[i]).ok
            /\ IF Unwrap(ret[i]).ok
               THEN Unwrap(response[i]).val = JBool(TRUE)
               ELSE Unwrap(response[i]).val = JString(Unwrap(ret[i]).err)

(* a Store whose put failed is about to reply *)
C6_Witness ==
    \E i \in ReqIds :
        /\ Tag(i) = "Store" /\ pc[i] = "send" /\ ~Unwrap(ret[i]).ok
        /\ response[i] = Some(Ok(JString("D")))

(* C7: on a local miss, when lookup_content returns ContentNotFound the    *)
(* find-content handler replies Err with the text of a JSON object whose   *)
(* message is "{message}: utp: {utp}" and whose trace is the error's       *)
(* trace, for both is_trace values.                                        *)
C7_ContentNotFound ==
    \A i \in ReqIds :
        (RfcViaOverlay(i) /\ Unwrap(ret[i]).r = "ContentNotFound") =>
            LET e == Unwrap(ret[i])
                r == Unwrap(response[i])
            IN /\ ~r.ok
               /\ r.val.t = "JsonText"
               /\ DOMAIN r.val.v = {"message", "trace"}
               /\ r.val.v.message = e.message \o ": utp: " \o BoolStr(e.utp)
               /\ r.val.v.trace = e.trace
               /\ ~e.utp => r.val.v.message = "no providers: utp: false"

(* a traced and an untraced lookup both ended in ContentNotFound *)
C7_Witness ==
    \E i, j \in ReqIds :
        /\ RfcViaOverlay(i) /\ IsTrace(i) /\ Unwrap(ret[i]).r = "ContentNotFound"
        /\ RfcViaOverlay(j) /\ ~IsTrace(j) /\ Unwrap(ret[j]).r = "ContentNotFound"
        /\ Unwrap(ret[j]).trace # None

(* task h holds a lock that task i needs for its next step *)
HoldsLockNeeded(i, h) ==
    /\ pc[i] = "start"
    /\ \/ Tag(i) \in BeaconTags /\ h \in beacon_mutex
       \/ Tag(i) \in {"LocalContent", "PaginateLocalContentKeys"} \cup RfcTags
            /\ h \in store_lock.writer
       \/ Tag(i) = "Store" /\ h \in store_lock.readers \cup store_lock.writer

Runnable(i) == pc[i] \in Running \ Awaiting
Suspended(i) == pc[i] \in Awaiting

RouterCanDequeue == (router = "running" /\ rpc_rx # <<>>) => ENABLED RouterRecv

(* C8, as stated: a handler suspended in a collaborator call never keeps   *)
(* the router from dequeuing nor any other request from being handled: a   *)
(* task that cannot take its next step waits only for a task that is not   *)
(* suspended.                                                              *)
C8_NeverBlockedBySuspended ==
    /\ RouterCanDequeue
    /\ \A i \in ReqIds :
          Runnable(i) =>
              \/ ENABLED TaskStep(i)
              \/ \E h \in ReqIds \ {i} :
                    HoldsLockNeeded(i, h) /\ Runnable(h) /\ ENABLED TaskStep(h)

(* C8, amended: the same, except that an OptimisticStateRoot or            *)
(* FinalizedStateRoot request waits for the beacon-client mutex while      *)
(* another state-root request is suspended in its header call.             *)
C8_BlockedOnlyOnBeaconMutex ==
    /\ RouterCanDequeue
    /\ \A i \in ReqIds :
          Runnable(i) =>
              \/ ENABLED TaskStep(i)
              \/ \E h \in ReqIds \ {i} :
                    HoldsLockNeeded(i, h) /\ Runnable(h) /\ ENABLED TaskStep(h)
              \/ \E h \in ReqIds \ {i} :
                    /\ Tag(i) \in BeaconTags /\ pc[i] = "start"
                    /\ beacon_mutex = Some(h) /\ pc[h] = "bc_await"
    /\ \A i \in ReqIds : Suspended(i) => ENABLED CollaboratorReturn(i)

(* a request dequeued after one that is suspended in a collaborator call   *)
(* has been answered                                                       *)
C8_Witness ==
    \E i, j \in ReqIds :
        /\ j < i /\ Suspended(j)
        /\ pc[i] = "done" /\ Len(resp[i].msgs) = 1

(* C9: the router loop ends when, and only when, the intake queue is       *)
(* closed and drained; handler tasks in flight at that moment continue and *)
(* still send their replies.                                               *)
C9_RouterTermination ==
    /\ router = "done" => closed /\ rpc_rx = <<>>
    /\ router = "running" => ((ENABLED RouterStop) <=> (closed /\ rpc_rx = <<>>))
    /\ RouterCanDequeue
    /\ router = "done" =>
          \A i \in ReqIds :
              /\ pc[i] = "send" => ENABLED Send(i)
              /\ Suspended(i) => ENABLED CollaboratorReturn(i)
              /\ Runnable(i) =>
                    \/ ENABLED TaskStep(i)
                    \/ \E h \in ReqIds \ {i} : HoldsLockNeeded(i, h)

(* the router has returned while one task is suspended in a collaborator   *)
(* call and another is about to send its reply                             *)
C9_Witness ==
    /\ router = "done"
    /\ \E i, j \in ReqIds : Suspended(i) /\ pc[j] = "send"

(* C10: a panic inside one handler task does not stop the router and does  *)
(* not affect sibling tasks; the client of the failed request sees its     *)
(* reply channel closed without a message.                                 *)
C10_PanicIsolated ==
    /\ router # "panicked"
    /\ \A i \in ReqIds :
          pc[i] = "panicked" =>
              /\ ~resp[i].tx /\ resp[i].msgs = <<>> /\ resp[i].sends = 0
              /\ i \notin store_lock.readers \cup store_lock.writer \cup beacon_mutex
              /\ RouterCanDequeue
              /\ \A j \in ReqIds \ {i} :
                    /\ pc[j] = "send" => ENABLED Send(j)
                    /\ Suspended(j) => ENABLED CollaboratorReturn(j)
                    /\ Runnable(j) =>
                          \/ ENABLED TaskStep(j)
                          \/ \E h \in ReqIds \ {i, j} : HoldsLockNeeded(j, h)

(* one task has panicked, a sibling dequeued after it is about to reply *)
C10_Witness ==
    \E i, j \in ReqIds :
        /\ i < j /\ pc[i] = "panicked" /\ pc[j] = "send"
        /\ resp[i].msgs = <<>> /\ ~resp[i].tx

HoldsStoreLock(i) == i \in store_lock.readers \cup store_lock.writer
HoldsBeaconMutex(i) == i \in beacon_mutex

(* C11: no handler holds the store's read or write lock while it is        *)
(* suspended awaiting network I/O; the find-content handler has released   *)
(* the read lock of its local probe before it calls and awaits             *)
(* lookup_content.                                                         *)
C11_NoStoreLockAcrossAwait ==
    \A i \in ReqIds :
        /\ Suspended(i) => ~HoldsStoreLock(i)
        /\ (Tag(i) \in RfcTags /\ pc[i] = "rfc_probed") => ~HoldsStoreLock(i)
        /\ Called(i, "lookup_content") => ~HoldsStoreLock(i)
        /\ HoldsStoreLock(i) => pc[i] \in {"store_locked", "rfc_locked"}

(* a find-content handler awaits lookup_content after its probe while a    *)
(* Store holds the write lock                                              *)
C11_Witness ==
    \E i, j \in ReqIds :
        /\ pc[i] = "rfc_await" /\ calls[i] = <<"store.get", "lookup_content">>
        /\ Tag(j) = "Store" /\ store_lock.writer = {j}

(* the steps of request i's task that C12 speaks of *)
SendsReply(i) == pc[i] = "send" /\ pc'[i] \in Terminated /\ resp'[i].sends = resp[i].sends + 1
StorePuts(i) == Tag(i) = "Store" /\ pc[i] = "start" /\ pc'[i] = "store_locked"

(* C12: when the client has dropped the receiver of the reply channel, the *)
(* handler's send delivers nothing and fails nothing (the task returns,    *)
(* the router and the store are untouched), and the handler's side effects *)
(* are performed as for a live client: a Store still takes the write lock  *)
(* and a successful put is committed to the store.                         *)
C12_DroppedReceiver ==
    [][\A i \in ReqIds :
          ~resp[i].rx =>
              /\ pc[i] = "send" => ENABLED Send(i)
              /\ SendsReply(i) =>
                    /\ pc'[i] = "done"
                    /\ resp'[i].msgs = <<>>
                    /\ router' = router /\ overlay_store' = overlay_store
                    /\ store_lock' = store_lock /\ beacon_mutex' = beacon_mutex
              /\ (Tag(i) = "Store" /\ pc[i] = "start"
                    /\ store_lock.readers = {} /\ store_lock.writer = {}) =>
                    ENABLED StorePut(i)
              /\ (StorePuts(i) /\ Unwrap(ret'[i]).ok) =>
                    /\ overlay_store' =
                          [overlay_store EXCEPT ![req[i].key] = Some(encode(req[i].value))]
                    /\ response'[i] = Some(Ok(JBool(TRUE)))
      ]_vars

(* a Store whose client went away before the reply has returned: its      *)
(* value is in the store and nothing was delivered                         *)
C12_Witness ==
    \E i \in ReqIds, k \in Keys :
        /\ pc[i] = "done" /\ ~resp[i].rx
        /\ resp[i].msgs = <<>> /\ resp[i].sends = 1
        /\ last_writer[k] = Some([id |-> i, value |-> "vBEEF"])
        /\ overlay_store[k] = Some(<<190, 239>>)

(* a collaborator's result that is an error *)
IsErr(r) == IF "ok" \in DOMAIN r THEN ~r.ok ELSE r.r # "Found"

(* the local probe of request i's find-content handler returned an error *)
ProbeFailed(i) ==
    /\ Tag(i) \in RfcTags /\ pc[i] \in {"rfc_locked", "rfc_probed"}
    /\ ~Unwrap(ret[i]).ok

(* request i's task invokes a collaborator operation in this step *)
Invokes(i) == Len(calls'[i]) > Len(calls[i])

(* C13: a store read error during the local probe of the find-content      *)
(* handler is treated as a local miss: nothing is replied for it, the      *)
(* handler goes on to lookup_content, and every error it replies comes     *)
(* from the lookup's outcome; and this is the only place where a           *)
(* collaborator's error is followed by a further collaborator call.        *)
C13_ProbeErrorFallsThrough ==
    /\ [](\A i \in ReqIds :
            /\ ProbeFailed(i) => rfc_local[i] = None /\ response[i] = None
            /\ (ProbeFailed(i) /\ pc[i] = "rfc_probed") =>
                  (ENABLED RfcLookupCall(i)) /\ ~(ENABLED RfcLocalHit(i))
            /\ (RfcReturns(i) /\ ~Unwrap(response[i]).ok) =>
                  /\ Called(i, "lookup_content")
                  /\ response[i] = Some(rfc_lookup(Unwrap(ret[i]), IsTrace(i)))
                  /\ Unwrap(response[i]).val.t = "Text" =>
                        Unwrap(response[i]).val.v # DbErrText)
    /\ [][\A i \in ReqIds :
            (Invokes(i) /\ ret[i] # None /\ IsErr(Unwrap(ret[i]))) =>
                /\ Tag(i) \in RfcTags
                /\ calls[i] = <<"store.get">>
                /\ calls'[i] = <<"store.get", "lookup_content">>
         ]_vars

(* the probe failed on a key the store holds, and the handler is about to  *)
(* reply with the content that lookup_content found                        *)
C13_Witness ==
    \E i \in ReqIds :
        /\ RfcReturns(i) /\ present_at_probe[i] /\ rfc_local[i] = None
        /\ calls[i] = <<"store.get", "lookup_content">>
        /\ Unwrap(response[i]).ok
        /\ Unwrap(response[i]).val.v.content = hex_encode(NetBytes)

HeaderInFlight == {i \in ReqIds : pc[i] = "bc_await"}

(* C14: at most one header RPC is in flight at any moment across all       *)
(* state-root requests; the beacon-client mutex is held by the task that   *)
(* is inside its state-root arm and by no other, for at most one header    *)
(* call; and it is released after the call on success and on failure.      *)
C14_SingleFlight ==
    /\ Cardinality(HeaderInFlight) <= 1
    /\ \A i \in ReqIds :
        /\ HoldsBeaconMutex(i) <=> pc[i] \in {"bc_locked", "bc_await", "bc_done"}
        /\ HoldsBeaconMutex(i) =>
              /\ beacon_mutex = Some(i)
              /\ Tag(i) \in BeaconTags
              /\ calls[i] \in {<<>>, <<HeaderOp(Tag(i))>>}
              /\ pc[i] = "bc_await" <=> (calls[i] # <<>> /\ response[i] = None)
        /\ pc[i] = "bc_done" =>
              /\ ENABLED BeaconUnlock(i)
              /\ ret[i] # None => response[i] = Some(state_root(Unwrap(ret[i])))
        /\ (Tag(i) \in BeaconTags /\ pc[i] = "send") => ~HoldsBeaconMutex(i)

(* a state-root request whose header call failed has released the mutex,   *)
(* and the other state-root request holds it with its header call in       *)
(* flight                                                                  *)
C14_Witness ==
    \E i, j \in ReqIds :
        /\ Tag(i) \in BeaconTags /\ pc[i] = "send" /\ ret[i] # None
        /\ ~Unwrap(ret[i]).ok
        /\ Tag(j) \in BeaconTags /\ pc[j] = "bc_await" /\ beacon_mutex = Some(j)

(* how many times op occurs in seq *)
Count(seq, op) == Cardinality({n \in 1..Len(seq) : seq[n] = op})

(* the find-content handler between its failed probe and the lookup's return *)
InFallThrough(i) ==
    /\ Tag(i) \in RfcTags /\ pc[i] \in {"rfc_locked", "rfc_probed", "rfc_await"}
    /\ calls[i] \in {<<"store.get">>, <<"store.get", "lookup_content">>}

(* an error from a collaborator ends the handler with a reply, except for  *)
(* the store-read fall-through of the find-content handler                 *)
ErrorEndsHandler(i) ==
    (ret[i] # None /\ IsErr(Unwrap(ret[i])) /\ ~InFallThrough(i)) =>
        /\ response[i] # None
        /\ pc[i] \in {"store_locked", "bc_done", "send"}
        /\ ~(ENABLED (TaskStep(i) /\ Invokes(i)))

(* C15, as stated: within the handling of one request every collaborator   *)
(* operation is invoked at most once, and an error from it ends the        *)
(* handler with a reply, except for the store-read fall-through.           *)
C15_EveryOperationAtMostOnce ==
    \A i \in ReqIds :
        /\ \A op \in Range(calls[i]) : Count(calls[i], op) = 1
        /\ ErrorEndsHandler(i)

(* C15, amended: the same for every operation but the overlay's local_enr  *)
(* accessor, which cannot fail and which the local hit of the find-content *)
(* handler reads twice (and no other path reads at all).                   *)
C15_NoRetry ==
    \A i \in ReqIds :
        /\ \A op \in Range(calls[i]) \ {"local_enr"} : Count(calls[i], op) = 1
        /\ Called(i, "local_enr") =>
              /\ calls[i] = <<"store.get", "local_enr", "local_enr">>
              /\ RfcReturns(i) /\ rfc_local[i] # None
        /\ ErrorEndsHandler(i)

(* a Ping whose send_ping failed is about to reply the error after its     *)
(* single call, and a find-content local hit has read local_enr twice      *)
C15_Witness ==
    \E i, j \in ReqIds :
        /\ Tag(i) = "Ping" /\ pc[i] = "send" /\ calls[i] = <<"send_ping">>
        /\ response[i] = Some(Err("Ping request timeout: E"))
        /\ RfcReturns(j) /\ Count(calls[j], "local_enr") = 2

(* the strings that start with prefix, over the texts the model can build *)
StartsWith(s, prefix) ==
    \E rest \in {" (42) instead of conducting utp transfer.", ": " \o ErrText} :
        s = prefix \o rest

(* the FindContent handler of request i has its reply for the result out *)
FindContentReturns(i) == Tag(i) = "FindContent" /\ pc[i] = "send"

(* C16: a direct FindContent that returns ConnectionId(id) is answered Err *)
(* with a text starting "FindContent request returned a connection id"; a  *)
(* transport failure is answered Err with a text starting "FindContent     *)
(* request timeout"; the reply is Ok exactly for the Content and Enrs      *)
(* variants.                                                               *)
C16_FindContentReplies ==
    \A i \in ReqIds :
        FindContentReturns(i) =>
            LET out == Unwrap(ret[i])
                r == Unwrap(response[i])
            IN /\ (out.ok /\ out.val.content.variant = "ConnectionId") =>
                     /\ ~r.ok
                     /\ StartsWith(r.val.v, "FindContent request returned a connection id")
               /\ ~out.ok =>
                     /\ ~r.ok
                     /\ StartsWith(r.val.v, "FindContent request timeout")
               /\ r.ok <=> (out.ok /\ out.val.content.variant \in {"Content", "Enrs"})
               /\ (out.ok /\ out.val.content.variant = "Content") =>
                     r.val.v = [content |-> hex_encode(out.val.content.bytes),
                                utpTransfer |-> out.val.utp_transfer]
               /\ (out.ok /\ out.val.content.variant = "Enrs") =>
                     r.val.v = [enrs |-> out.val.content.enrs]

(* send_find_content returned ConnectionId(42) and the handler is about to *)
(* reply the connection-id error                                           *)
C16_Witness ==
    \E i \in ReqIds :
        /\ FindContentReturns(i)
        /\ Unwrap(ret[i]).ok /\ Unwrap(ret[i]).val.content.variant = "ConnectionId"
        /\ response[i] = Some(Err("FindContent request returned a connection id (42) "
                                  \o "instead of conducting utp transfer."))

TraceMissing == Err("Content query trace requested but none provided.")

(* request i's reply is that error *)
RepliesTraceMissing(i) ==
    LET r == Unwrap(response[i])
    IN ~r.ok /\ r.val.t = TraceMissing.val.t /\ r.val.v = TraceMissing.val.v

(* lookup_content returned content to request i's handler without a trace *)
FoundWithoutTrace(i) ==
    /\ RfcViaOverlay(i)
    /\ Unwrap(ret[i]).r = "Found" /\ Unwrap(ret[i]).trace = None

(* C17: a TraceRecursiveFindContent whose lookup_content succeeds with     *)
(* content but no trace is answered Err("Content query trace requested but *)
(* none provided.") and the content is not returned; that error is never   *)
(* produced with is_trace = false and never on a local hit.                *)
C17_TraceRequestedNoneProvided ==
    \A i \in ReqIds :
        RfcReturns(i) =>
            /\ (IsTrace(i) /\ FoundWithoutTrace(i)) => RepliesTraceMissing(i)
            /\ RepliesTraceMissing(i) =>
                  /\ IsTrace(i)
                  /\ FoundWithoutTrace(i)
                  /\ rfc_local[i] = None
            /\ (~IsTrace(i) /\ FoundWithoutTrace(i)) =>
                  /\ Unwrap(response[i]).ok
                  /\ Unwrap(response[i]).val.t = "ContentInfo::Content"
                  /\ Unwrap(response[i]).val.v =
                        [content |-> hex_encode(Unwrap(ret[i]).content),
                         utpTransfer |-> Unwrap(ret[i]).utp_transfer]

(* a traced lookup that found content without a trace is about to reply    *)
(* the error, while a traced local hit is about to reply its content       *)
C17_Witness ==
    \E i, j \in ReqIds :
        /\ RfcReturns(i) /\ IsTrace(i) /\ FoundWithoutTrace(i)
        /\ RepliesTraceMissing(i)
        /\ RfcReturns(j) /\ IsTrace(j) /\ rfc_local[j] # None
        /\ Unwrap(response[j]).ok

StoreOps == {"store.get", "store.put", "store.paginate"}

(* the number of lock guards request i's task holds *)
LocksHeld(i) ==
    (IF i \in store_lock.readers THEN 1 ELSE 0)
    + (IF i \in store_lock.writer THEN 1 ELSE 0)
    + (IF HoldsBeaconMutex(i) THEN 1 ELSE 0)

(* request i's task performs a store operation in this step *)
PerformsStoreOp(i) ==
    /\ Invokes(i)
    /\ calls'[i][Len(calls'[i])] \in StoreOps

(* C18: no handler task holds two locks at once: a store operation is      *)
(* performed only by a task that holds no lock, a task that holds the      *)
(* beacon-client mutex performs none, and a task that waits for a lock     *)
(* holds none, so the tasks' lock waits form no cycle.                     *)
C18_AtMostOneLock ==
    /\ [](\A i \in ReqIds :
            /\ LocksHeld(i) <= 1
            /\ HoldsBeaconMutex(i) => Range(calls[i]) \cap StoreOps = {}
            /\ pc[i] = "start" => LocksHeld(i) = 0
            /\ \A h \in ReqIds :
                  HoldsLockNeeded(i, h) =>
                      /\ h # i
                      /\ \A g \in ReqIds : ~HoldsLockNeeded(h, g))
    /\ [][\A i \in ReqIds :
            PerformsStoreOp(i) => (LocksHeld(i) = 0 /\ LocksHeld(i)' = 1)
         ]_vars

(* a Store waits for the write lock while a reader holds its read guard,   *)
(* and the reader waits for nothing                                        *)
C18_Witness ==
    \E i, h \in ReqIds :
        /\ Tag(i) = "Store" /\ HoldsLockNeeded(i, h)
        /\ h \in store_lock.readers /\ LocksHeld(h) = 1 /\ LocksHeld(i) = 0

ReadOnlyTags == {"LocalContent", "PaginateLocalContentKeys"} \cup RfcTags

(* request i's task takes a step *)
Steps(i) == pc'[i] # pc[i] /\ pc[i] \in Running

(* C19: only Store writes to the local store: the store's contents change  *)
(* only in the put of a Store request, and a step of a LocalContent,       *)
(* PaginateLocalContentKeys or find-content handler leaves them unchanged, *)
(* the return of lookup_content with content included.                     *)
C19_OnlyStoreWrites ==
    [][/\ overlay_store' # overlay_store =>
             \E i \in ReqIds :
                 /\ StorePuts(i) /\ Unwrap(ret'[i]).ok
                 /\ \A k \in Keys \ {req[i].key} : overlay_store'[k] = overlay_store[k]
       /\ \A i \in ReqIds :
             (Steps(i) /\ Tag(i) \in ReadOnlyTags) => overlay_store' = overlay_store
       /\ \A i \in ReqIds :
             (Steps(i) /\ Tag(i) # "Store") => overlay_store' = overlay_store
      ]_vars

(* a find-content handler got the content from the overlay after a local   *)
(* miss and the store still does not hold the key                          *)
C19_Witness ==
    \E i \in ReqIds :
        /\ RfcViaOverlay(i) /\ Unwrap(ret[i]).r = "Found" /\ Unwrap(response[i]).ok
        /\ ~present_at_probe[i]
        /\ overlay_store[req[i].key] = None

(* C20: sending the reply is the last action of a handler task: the task   *)
(* holds no lock when it is about to send and after it has sent (the store *)
(* lock and the beacon-client mutex were released before), the send itself *)
(* touches no lock, and a task that has sent takes no further step and     *)
(* makes no further collaborator call.                                     *)
C20_SendIsLast ==
    /\ [](\A i \in ReqIds :
            /\ pc[i] \in {"send", "done"} => LocksHeld(i) = 0
            /\ resp[i].sends >= 1 => pc[i] = "done"
            /\ pc[i] = "done" =>
                  /\ ~(ENABLED TaskStep(i))
                  /\ ~(ENABLED CollaboratorReturn(i))
                  /\ ~(ENABLED Panic(i)))
    /\ [][\A i \in ReqIds :
            /\ SendsReply(i) =>
                  /\ pc'[i] = "done"
                  /\ store_lock' = store_lock /\ beacon_mutex' = beacon_mutex
                  /\ overlay_store' = overlay_store
                  /\ ~Invokes(i)
            /\ pc[i] = "done" =>
                  /\ pc'[i] = "done"
                  /\ calls'[i] = calls[i]
                  /\ resp'[i] = resp[i]
         ]_vars

(* a state-root request has been answered with the root, and the other     *)
(* request now holds the beacon-client mutex                               *)
C20_Witness ==
    \E i, j \in ReqIds :
        /\ pc[i] = "done" /\ Len(resp[i].msgs) = 1
        /\ resp[i].msgs[1].ok /\ resp[i].msgs[1].val.t = "B256"
        /\ j # i /\ beacon_mutex = Some(j) /\ pc[j] = "bc_await"
====
